---- MODULE Spec2Model ----
(***************************************************************************)
(* Model of scripts/repeat.py (RepeatNode): the per-frame pipeline         *)
(* Image_Callback -> ImageMatching -> Controller -> RelativeTFBetweenFrames *)
(* together with Odom_Callback.                                            *)
(*                                                                         *)
(* Units of the fixed-point arithmetic:                                    *)
(*   lengths      centimetres                                              *)
(*   angles       units of 15 degrees (24 units = one turn)                *)
(*   speed        millimetres per second                                   *)
(*   pixels       half pixels (patch centre = location + width / 2.0)      *)
(* Teach rows carry yaw values that are multiples of 90 degrees, so that   *)
(* the composition of planar transforms is exact on the integer lattice.   *)
(***************************************************************************)
EXTENDS Integers, Sequences, FiniteSets, TLC

\* ------------------------------------------------------------------ bounds
MaxN == 3        \* longest teach path drawn by Init
MaxW == 1        \* largest frame_search_window drawn by Init
MaxL == 2        \* largest target_frame_lookahead drawn by Init
MaxNth == 2      \* largest process_every_nth_frame drawn by Init
MaxScore == 1    \* correlation maxima are drawn from 0..MaxScore
MaxPose == 2     \* odometry messages delivered in one run
MaxImages == 4       \* images counted after the first odometry message
MaxFrames == 2   \* frames processed to the end in one run (caps frame_id)

\* ------------------------------------------------------- program constants
None == 0                       \* previous_odom / current_odom / first_frame_odom = None
Y_OFFSET_SCALE_FACTOR == 1      \* 0.02 m per pixel = 1 cm per half pixel
DefaultComparisonWidth == 64    \* ~image_comparison_size_x, pixels
PATCH_PORTION_PERCENT == 60     \* PATCH_PORTION = 0.6
RHO_GAIN == 6                   \* 0.6 1/s: mm/s per cm of rho
ALPHA_GAIN == 7                 \* 0.7, in tenths
BETA_GAIN == 3                  \* 0.3, in tenths
WHEEL_BASE == 312               \* 0.312 m, in mm
MAX_FORWARD_VELOCITY == 500     \* 0.5 m/s, in mm/s
MAX_STEERING_ANGLE == 3         \* radians(45.0)  = 3 units of 15 degrees
MIN_STEERING_ANGLE == -3        \* radians(-45.0)
AngleUnitRad == 2618            \* 15 degrees = 0.2618 rad, in 1e-4 rad

\* IMAGE_COMPARISON_SIZE[0], a parameter fixed for the run
VARIABLE IMAGE_COMPARISON_WIDTH

\* ----------------------------------------------------------------- helpers
Min(a, b) == IF a < b THEN a ELSE b
Max(a, b) == IF a > b THEN a ELSE b
Abs(a) == IF a < 0 THEN -a ELSE a
Sgn(a) == IF a < 0 THEN -1 ELSE IF a > 0 THEN 1 ELSE 0

\* floor of the square root, by bisection (math.sqrt in distance_of_trans)
RECURSIVE SqrtBetween(_, _, _)
SqrtBetween(n, lo, hi) ==
    IF lo >= hi THEN lo
    ELSE LET mid == (lo + hi + 1) \div 2
         IN  IF mid * mid <= n THEN SqrtBetween(n, mid, hi)
                               ELSE SqrtBetween(n, lo, mid - 1)
ISqrt(n) == SqrtBetween(n, 0, Min(n, 1000))

\* tan(15 k degrees) * 1000, k = 1..5
TanTab == <<268, 577, 1000, 1732, 3732>>

\* np.arctan(num / den) for den > 0, truncated toward 0 to a multiple of 15 deg
ArcTan(num, den) ==
    Sgn(num) * Cardinality({k \in 1..5 : TanTab[k] * den <= Abs(num) * 1000})

\* np.arctan2(y, x), truncated toward the x axis to a multiple of 15 degrees
ArcTan2(y, x) ==
    IF x > 0 THEN ArcTan(y, x)
    ELSE IF x = 0 THEN 6 * Sgn(y)
    ELSE IF y >= 0 THEN 12 - ArcTan(y, -x)
    ELSE -12 + ArcTan(-y, -x)

\* yaw brought back to (-180, 180] degrees (quaternion_from_euler followed by
\* yaw_from_trans)
NormYaw(a) == ((a + 11) % 24) - 11

\* --------------------------------------------------------------- transforms
\* a 4x4 homogeneous planar transform; size = 0 is np.array([])
Trans(x, y, yaw) == [size |-> 16, x |-> x, y |-> y, yaw |-> NormYaw(yaw)]
EmptyTrans == [size |-> 0, x |-> 0, y |-> 0, yaw |-> 0]

\* rotation of the vector (x, y) by a yaw that is a multiple of 90 degrees
RotX(x, y, yaw) == CASE yaw = 0 -> x [] yaw = 6 -> -y [] yaw = 12 -> -x [] OTHER -> y
RotY(x, y, yaw) == CASE yaw = 0 -> y [] yaw = 6 -> x [] yaw = 12 -> -y [] OTHER -> -x

pose_msg_to_trans(x, y, yaw) == Trans(x, y, yaw)

append_trans(a, b) ==
    Trans(a.x + RotX(b.x, b.y, a.yaw), a.y + RotY(b.x, b.y, a.yaw), a.yaw + b.yaw)

inverse_trans(a) ==
    LET inv_yaw == NormYaw(-a.yaw)
    IN  Trans(-RotX(a.x, a.y, inv_yaw), -RotY(a.x, a.y, inv_yaw), inv_yaw)

diff_trans(a, b) == append_trans(inverse_trans(a), b)

distance_of_trans(t) == ISqrt(t.x * t.x + t.y * t.y)
yaw_from_trans(t) == t.yaw

\* the index list range(len)[start:stop] of a Python / numpy slice
PyIndex(len, i) == IF i < 0 THEN Max(len + i, 0) ELSE Min(i, len)
PySlice(len, start, stop) ==
    LET lo == PyIndex(len, start)
        hi == PyIndex(len, stop)
    IN  [k \in 1..Max(hi - lo, 0) |-> lo + k - 1]

\* ------------------------------------------------------- teach-path algebra
\* RelativeTFBetweenFrames with the bounds check the numpy slice does not make
RelativeTFBetweenFrames_BoundsChecked(ds, current_frame_id, goal_frame_id) ==
    LET rows == PySlice(Len(ds), current_frame_id + 1, goal_frame_id + 1)
        frame_tf(k) == pose_msg_to_trans(ds[rows[k] + 1].x, ds[rows[k] + 1].y,
                                         ds[rows[k] + 1].yaw)
        chain[k \in 0..Len(rows)] ==
            IF k = 0 THEN EmptyTrans
            ELSE IF chain[k - 1].size = 0 THEN frame_tf(k)
            ELSE append_trans(chain[k - 1], frame_tf(k))
    IN  IF current_frame_id = goal_frame_id THEN pose_msg_to_trans(0, 0, 0)
        ELSE IF goal_frame_id > Len(ds) - 1 THEN EmptyTrans
        ELSE chain[Len(rows)]

\* RelativeTFBetweenFrames without the case of equal ids
RelativeTFBetweenFrames_NoEqualCase(ds, current_frame_id, goal_frame_id) ==
    LET rows == PySlice(Len(ds), current_frame_id + 1, goal_frame_id + 1)
        frame_tf(k) == pose_msg_to_trans(ds[rows[k] + 1].x, ds[rows[k] + 1].y,
                                         ds[rows[k] + 1].yaw)
        chain[k \in 0..Len(rows)] ==
            IF k = 0 THEN EmptyTrans
            ELSE IF chain[k - 1].size = 0 THEN frame_tf(k)
            ELSE append_trans(chain[k - 1], frame_tf(k))
    IN  chain[Len(rows)]

\* RelativeTFBetweenFrames chaining each row in front of the transform so far
RelativeTFBetweenFrames_Prepend(ds, current_frame_id, goal_frame_id) ==
    LET rows == PySlice(Len(ds), current_frame_id + 1, goal_frame_id + 1)
        frame_tf(k) == pose_msg_to_trans(ds[rows[k] + 1].x, ds[rows[k] + 1].y,
                                         ds[rows[k] + 1].yaw)
        chain[k \in 0..Len(rows)] ==
            IF k = 0 THEN EmptyTrans
            ELSE IF chain[k - 1].size = 0 THEN frame_tf(k)
            ELSE append_trans(frame_tf(k), chain[k - 1])
    IN  IF current_frame_id = goal_frame_id THEN pose_msg_to_trans(0, 0, 0)
        ELSE chain[Len(rows)]

\* RelativeTFBetweenFrames: ds holds columns 1:4 of teach_dataset, row i of the
\* array is ds[i + 1]
RelativeTFBetweenFrames(ds, current_frame_id, goal_frame_id) ==
    LET rows == PySlice(Len(ds), current_frame_id + 1, goal_frame_id + 1)
        frame_tf(k) == pose_msg_to_trans(ds[rows[k] + 1].x, ds[rows[k] + 1].y,
                                         ds[rows[k] + 1].yaw)
        chain[k \in 0..Len(rows)] ==
            IF k = 0 THEN EmptyTrans
            ELSE IF chain[k - 1].size = 0 THEN frame_tf(k)
            ELSE append_trans(chain[k - 1], frame_tf(k))
    IN  IF current_frame_id = goal_frame_id THEN pose_msg_to_trans(0, 0, 0)
        ELSE chain[Len(rows)]

\* ------------------------------------------------------------ ImageMatching
\* ImageCropCenter(img_proc, PATCH_PORTION).shape[1]
PatchWidth == (IMAGE_COMPARISON_WIDTH * PATCH_PORTION_PERCENT) \div 100

\* start_idx without the clamp at 0
start_idx_Unclamped(cursor, w) == cursor - w
start_idx(cursor, w) == Max(cursor - w, 0)

\* end_idx without the + 1
end_idx_Exclusive(cursor, w, n) == Min(cursor + w, n)
end_idx(cursor, w, n) == Min(cursor + w + 1, n)

\* the scan over the whole teach path
TeachFrameIds_WholePath(cursor, w, n) == PySlice(n, 0, n)

\* line 212: self.teach_dataset[start_idx:end_idx, 0]; column 0 holds the row
\* numbers (line 97)
TeachFrameIds(cursor, w, n) == PySlice(n, start_idx(cursor, w), end_idx(cursor, w, n))

\* the state of the scan before the first candidate
ScanInit(cursor) ==
    [best_none |-> TRUE, best_score |-> 0, best_max_location |-> 0,
     cursor |-> cursor, max_location_bound |-> FALSE, max_location |-> 0]

\* one pass of the loop body, where ties replace the running best
ScanStep_TiesReplace(st, teach_frame_id, max_val, max_location) ==
    LET seen == [st EXCEPT !.max_location_bound = TRUE, !.max_location = max_location]
    IN  IF st.best_none \/ st.best_score <= max_val
        THEN [seen EXCEPT !.best_none = FALSE, !.best_score = max_val,
                          !.best_max_location = max_location,
                          !.cursor = teach_frame_id]
        ELSE seen

\* one pass of the loop body for candidate teach_frame_id, whose correlation
\* surface has maximum max_val at max_location
ScanStep(st, teach_frame_id, max_val, max_location) ==
    LET seen == [st EXCEPT !.max_location_bound = TRUE, !.max_location = max_location]
    IN  IF st.best_none \/ st.best_score < max_val
        THEN [seen EXCEPT !.best_none = FALSE, !.best_score = max_val,
                          !.best_max_location = max_location,
                          !.cursor = teach_frame_id]
        ELSE seen

\* lines 233-246: the offsets and the return value, from the loop's final state
MatchResult(final, ids) ==
    [match_teach_id |-> final.cursor,
     offsets |-> [x |-> 0,
                  y |-> Y_OFFSET_SCALE_FACTOR *
                        (2 * (IMAGE_COMPARISON_WIDTH \div 2)
                         - (2 * final.max_location + PatchWidth)),
                  yaw |-> 0],
     scanned |-> ids,
     max_location |-> final.max_location,
     best_max_location |-> final.best_max_location,
     max_location_bound |-> final.max_location_bound]

\* lines 212-225: the loop over the candidates ids[k .. Len(ids)]
RECURSIVE Scan(_, _, _, _, _)
Scan(st, ids, k, scores, locations) ==
    IF k > Len(ids) THEN st
    ELSE Scan(ScanStep(st, ids[k], scores[ids[k]], locations[ids[k]]),
              ids, k + 1, scores, locations)

ScanWindow(cursor, ids, scores, locations) ==
    MatchResult(Scan(ScanInit(cursor), ids, 1, scores, locations), ids)

\* ImageMatching: scores[id] and locations[id] are what cv.minMaxLoc returns
\* for candidate id (x coordinate of max_location only; y feeds the display)
ImageMatching(cursor, w, n, scores, locations) ==
    ScanWindow(cursor, TeachFrameIds(cursor, w, n), scores, locations)

\* --------------------------------------------------------------- Controller
Clamp(v, lo, hi) == Min(Max(v, lo), hi)

\* the steering law without the final clamp
SteeringAngle_Unclamped(ang_vel, lin_vel) ==
    IF lin_vel # 0
    THEN ArcTan(Sgn(ang_vel) * ((Abs(ang_vel) * AngleUnitRad * WHEEL_BASE) \div 1000),
                lin_vel * 100)
    ELSE 0

\* the steering law without the case of zero speed
SteeringAngle_NoZeroSpeedCase(ang_vel, lin_vel) ==
    Clamp(ArcTan(Sgn(ang_vel) * ((Abs(ang_vel) * AngleUnitRad * WHEEL_BASE) \div 1000),
                 lin_vel * 100),
          MIN_STEERING_ANGLE, MAX_STEERING_ANGLE)

\* lines 288-292: arctan(ang_vel * WHEEL_BASE / lin_vel), or 0, then the clamp
SteeringAngle(ang_vel, lin_vel) ==
    Clamp(IF lin_vel # 0
          THEN ArcTan(Sgn(ang_vel) * ((Abs(ang_vel) * AngleUnitRad * WHEEL_BASE) \div 1000),
                      lin_vel * 100)
          ELSE 0,
          MIN_STEERING_ANGLE, MAX_STEERING_ANGLE)

\* lines 285-297: the control law and the message it publishes
ControlLaw(rho, alpha, beta, goal_size) ==
    [cmd |-> [speed |-> Min(Max(RHO_GAIN * rho, 0), MAX_FORWARD_VELOCITY),
              steering_angle |->
                  SteeringAngle(ALPHA_GAIN * alpha + BETA_GAIN * beta,
                                Min(Max(RHO_GAIN * rho, 0), MAX_FORWARD_VELOCITY))],
     published |-> 1, outcome |-> "track", goal_size |-> goal_size, rho |-> rho,
     ang_vel |-> ALPHA_GAIN * alpha + BETA_GAIN * beta]

\* lines 262-283: rho, alpha and beta of the goal seen from the offset pose
Tracking(goal_pos_relative_trans) ==
    ControlLaw(distance_of_trans(goal_pos_relative_trans),
               ArcTan2(goal_pos_relative_trans.y, goal_pos_relative_trans.x),
               yaw_from_trans(goal_pos_relative_trans),
               goal_pos_relative_trans.size)

\* lines 254-259: the end-of-path branch; cmd is self.ackermann_cmd.drive
EndOfPath(cmd) ==
    [cmd |-> [cmd EXCEPT !.speed = 0], published |-> 1, outcome |-> "stop",
     goal_size |-> 0, rho |-> 0, ang_vel |-> 0]

ControllerOnGoal(cmd, goal, offsets) ==
    IF goal.size = 0
    THEN EndOfPath(cmd)
    ELSE Tracking(diff_trans(pose_msg_to_trans(offsets.x, offsets.y, offsets.yaw), goal))

\* Controller: cmd is self.ackermann_cmd.drive before the call; the result
\* carries the message after it and the number of publish calls made
Controller(cmd, match_teach_id, offsets, ds, lookahead) ==
    ControllerOnGoal(cmd,
                     RelativeTFBetweenFrames(ds, match_teach_id, match_teach_id + lookahead),
                     offsets)

\* -------------------------------------------------------------------- state
VARIABLES
    teach_dataset,                    \* columns 1:4 of self.teach_dataset
    FRAME_SEARCH_WINDOW,              \* ~frame_search_window
    TARGET_FRAME_LOOKAHEAD,           \* max(~target_frame_lookahead, 1)
    PROCESS_EVERY_NTH_FRAME,          \* ~process_every_nth_frame
    SAVE_REPEAT_DATA,                 \* ~save_repeat_dataset
    current_matched_teach_frame_id,   \* the localization cursor
    odom_topic_recieved,
    frame_counter,
    frame_id,
    previous_odom,
    current_odom,
    first_frame_odom,
    ackermann_cmd,                    \* self.ackermann_cmd.drive (speed, steering_angle)
    last,                             \* what the latest callback invocation did
    stop_published,                   \* an end-of-path stop command was published in this run
    images_arrived,                   \* images that arrived after the first odometry message
    pc,                               \* where the running Image_Callback stands
    odom_read                         \* current_odom as read by line 160 and by line 161

config == <<teach_dataset, FRAME_SEARCH_WINDOW, TARGET_FRAME_LOOKAHEAD,
            PROCESS_EVERY_NTH_FRAME, SAVE_REPEAT_DATA, IMAGE_COMPARISON_WIDTH>>
\* what the specifications that run Image_Callback in one step leave alone
stepping == <<pc, odom_read>>
vars == <<teach_dataset, FRAME_SEARCH_WINDOW, TARGET_FRAME_LOOKAHEAD,
          PROCESS_EVERY_NTH_FRAME, SAVE_REPEAT_DATA, IMAGE_COMPARISON_WIDTH,
          current_matched_teach_frame_id, odom_topic_recieved, frame_counter,
          frame_id, previous_odom, current_odom, first_frame_odom, ackermann_cmd,
          last, stop_published, images_arrived, pc, odom_read>>

N == Len(teach_dataset)

\* rows of relative odometry a teach run can record: 1 m ahead, a step to the
\* front left ending turned 90 degrees left, and no motion
ZeroRow == [x |-> 0, y |-> 0, yaw |-> 0]
RowSet == {[x |-> 100, y |-> 0, yaw |-> 0], [x |-> 30, y |-> 40, yaw |-> 6], ZeroRow}

\* a teach row that turns on the spot
TurnRow == [x |-> 0, y |-> 0, yaw |-> 6]

\* the teach paths of 1..MaxN rows; row 0 is the first frame, relative to itself
TeachDatasets ==
    UNION {{ds \in [1..n -> RowSet] : ds[1] = ZeroRow} : n \in 1..MaxN}

\* x coordinates cv.minMaxLoc can return: left edge, centre, right edge
Locations == {0, (IMAGE_COMPARISON_WIDTH - PatchWidth) \div 2,
              IMAGE_COMPARISON_WIDTH - PatchWidth}
Scores == 0..MaxScore

\* the candidates of greatest score among ids, and the lowest of them
BestIds(ids, scores) ==
    {i \in {ids[k] : k \in 1..Len(ids)} :
        \A j \in {ids[k] : k \in 1..Len(ids)} : scores[j] <= scores[i]}
LowestBest(ids, scores) ==
    CHOOSE i \in BestIds(ids, scores) : \A j \in BestIds(ids, scores) : i <= j

\* the record kept of a callback invocation that did not reach ImageMatching
NoFrame(outcome, passed_gates) ==
    [outcome |-> outcome, passed_gates |-> passed_gates, published |-> 0,
     entry_cursor |-> 0, scanned |-> <<>>, match_teach_id |-> 0,
     max_location |-> 0, winner_location |-> 0, lowest_best |-> 0, best_count |-> 0,
     offset_y |-> 0, goal_size |-> 0, rho |-> 0, ang_vel |-> 0]

\* the fields __init__ sets, lines 29-36 and 108-111
InitFields ==
    /\ current_matched_teach_frame_id = 0
    /\ odom_topic_recieved = FALSE
    /\ frame_counter = 0
    /\ frame_id = 0
    /\ previous_odom = None
    /\ current_odom = None
    /\ first_frame_odom = None
    /\ ackermann_cmd = [speed |-> 0, steering_angle |-> 0]
    /\ last = NoFrame("init", FALSE)
    /\ stop_published = FALSE
    /\ images_arrived = 0
    /\ pc = "idle"
    /\ odom_read = <<None, None>>

\* the comparison widths a run can be configured with: the default, and an odd one
ComparisonWidths == {DefaultComparisonWidth, DefaultComparisonWidth + 1}

Init ==
    /\ teach_dataset \in TeachDatasets
    /\ FRAME_SEARCH_WINDOW \in 0..MaxW
    /\ TARGET_FRAME_LOOKAHEAD \in 1..MaxL
    /\ PROCESS_EVERY_NTH_FRAME \in 1..MaxNth
    /\ SAVE_REPEAT_DATA \in BOOLEAN
    /\ IMAGE_COMPARISON_WIDTH = DefaultComparisonWidth
    /\ InitFields

\* ------------------------------------------------------------------ actions
\* the k-th odometry message carries pose k
Odom_Callback ==
    \E pose \in {current_odom + 1} :
        /\ pose <= MaxPose
        /\ odom_topic_recieved' = TRUE
        /\ current_odom' = pose
        /\ last' = NoFrame("odom", FALSE)
        /\ UNCHANGED <<config, current_matched_teach_frame_id, frame_counter, frame_id,
                       previous_odom, first_frame_odom, ackermann_cmd, stop_published>>

\* the odometry gate placed after the decimation counter
Image_NoOdom_CountsFrame ==
    /\ ~odom_topic_recieved
    /\ frame_counter' = (frame_counter + 1) % PROCESS_EVERY_NTH_FRAME
    /\ last' = NoFrame("no_odom", FALSE)
    /\ UNCHANGED <<config, current_matched_teach_frame_id, odom_topic_recieved,
                   frame_id, previous_odom, current_odom, first_frame_odom,
                   ackermann_cmd, stop_published>>

\* lines 143-145: no odometry yet
Image_NoOdom ==
    /\ ~odom_topic_recieved
    /\ last' = NoFrame("no_odom", FALSE)
    /\ UNCHANGED <<config, current_matched_teach_frame_id, odom_topic_recieved,
                   frame_counter, frame_id, previous_odom, current_odom,
                   first_frame_odom, ackermann_cmd, stop_published>>

\* lines 148-150: the frame is not the n-th
Image_Decimated ==
    /\ odom_topic_recieved
    /\ frame_counter' = (frame_counter + 1) % PROCESS_EVERY_NTH_FRAME
    /\ frame_counter' # 0
    /\ last' = NoFrame("decimated", FALSE)
    /\ UNCHANGED <<config, current_matched_teach_frame_id, odom_topic_recieved,
                   frame_id, previous_odom, current_odom, first_frame_odom,
                   ackermann_cmd, stop_published>>

\* the decimation test made on the counter before it is advanced
Admitted_TestBeforeCount ==
    /\ odom_topic_recieved
    /\ frame_counter' = (frame_counter + 1) % PROCESS_EVERY_NTH_FRAME
    /\ frame_counter = 0

\* lines 143-161: the gates passed, and the odometry bookkeeping of frame 0
Admitted ==
    /\ odom_topic_recieved
    /\ frame_counter' = (frame_counter + 1) % PROCESS_EVERY_NTH_FRAME
    /\ frame_counter' = 0

FirstFrameOdom ==
    first_frame_odom' = IF frame_id = 0 THEN current_odom ELSE first_frame_odom

\* a decode failure that still counts the frame
Image_DecodeFail_CountsFrame ==
    /\ Admitted
    /\ FirstFrameOdom
    /\ previous_odom' = current_odom
    /\ frame_id < MaxFrames
    /\ frame_id' = frame_id + 1
    /\ last' = NoFrame("decode_fail", FALSE)
    /\ UNCHANGED <<config, current_matched_teach_frame_id, odom_topic_recieved,
                   current_odom, ackermann_cmd, stop_published>>

\* lines 168-173: imgmsg_to_cv2 raises
Image_DecodeFail ==
    /\ Admitted
    /\ FirstFrameOdom
    /\ previous_odom' = IF frame_id = 0 THEN current_odom ELSE previous_odom
    /\ last' = NoFrame("decode_fail", FALSE)
    /\ UNCHANGED <<config, current_matched_teach_frame_id, odom_topic_recieved,
                   frame_id, current_odom, ackermann_cmd, stop_published>>

\* lines 176-179: WriteDataToDatasetFile returns -1 and str(e) is evaluated with
\* e unbound; the exception ends the invocation
Image_SaveFail ==
    /\ Admitted
    /\ FirstFrameOdom
    /\ SAVE_REPEAT_DATA
    /\ previous_odom' = IF frame_id = 0 THEN current_odom ELSE previous_odom
    /\ last' = NoFrame("save_fail", TRUE)
    /\ UNCHANGED <<config, current_matched_teach_frame_id, odom_topic_recieved,
                   frame_id, current_odom, ackermann_cmd, stop_published>>

\* the teach frames ImageMatching reads from disk for this frame; cv.minMaxLoc
\* yields a maximum and its location for each of them
CandidateIds ==
    {TeachFrameIds(current_matched_teach_frame_id, FRAME_SEARCH_WINDOW, N)[k] :
        k \in 1..Len(TeachFrameIds(current_matched_teach_frame_id,
                                   FRAME_SEARCH_WINDOW, N))}

\* lines 181-186: ImageMatching, then Controller on its result
MatchAndControl ==
    /\ frame_id < MaxFrames
    /\ \E scores \in [CandidateIds -> Scores], locations \in [CandidateIds -> Locations] :
            /\ \E m \in {ImageMatching(current_matched_teach_frame_id,
                                        FRAME_SEARCH_WINDOW, N, scores, locations)} :
               \E c \in {Controller(ackermann_cmd, m.match_teach_id, m.offsets,
                                     teach_dataset, TARGET_FRAME_LOOKAHEAD)} :
                   \* the window of a valid cursor is never empty, so
                   \* max_location is bound after the loop
                   /\ m.max_location_bound
                   /\ current_matched_teach_frame_id' = m.match_teach_id
                   /\ ackermann_cmd' = c.cmd
                   /\ stop_published' = (stop_published \/ c.outcome = "stop")
                   /\ last' = [outcome |-> c.outcome, passed_gates |-> TRUE,
                               published |-> c.published,
                               entry_cursor |-> current_matched_teach_frame_id,
                               scanned |-> m.scanned,
                               match_teach_id |-> m.match_teach_id,
                               max_location |-> m.max_location,
                               \* of the inputs: where the returned candidate's
                               \* maximum lies, and which candidates score best
                               winner_location |-> locations[m.match_teach_id],
                               lowest_best |-> LowestBest(m.scanned, scores),
                               best_count |-> Cardinality(BestIds(m.scanned, scores)),
                               offset_y |-> m.offsets.y,
                               goal_size |-> c.goal_size, rho |-> c.rho,
                               ang_vel |-> c.ang_vel]

\* lines 181-190: the frame is matched and controlled
Image_Processed ==
    /\ Admitted
    /\ FirstFrameOdom
    /\ MatchAndControl
    /\ frame_id' = frame_id + 1
    /\ previous_odom' = current_odom
    /\ UNCHANGED <<config, odom_topic_recieved, current_odom>>

Image_Callback ==
    \/ Image_NoOdom
    \/ Image_Decimated
    \/ Image_DecodeFail
    \/ Image_SaveFail
    \/ Image_Processed

\* the two subscriptions, each callback run in one step; the branches of
\* Image_Callback are listed one by one
Next ==
    \/ Odom_Callback /\ UNCHANGED <<images_arrived, stepping>>
    \/ Image_NoOdom /\ UNCHANGED <<images_arrived, stepping>>
    \/ Image_Decimated /\ UNCHANGED <<images_arrived, stepping>>
    \/ Image_DecodeFail /\ UNCHANGED <<images_arrived, stepping>>
    \/ Image_SaveFail /\ UNCHANGED <<images_arrived, stepping>>
    \/ Image_Processed /\ UNCHANGED <<images_arrived, stepping>>

Spec == Init /\ [][Next]_vars

\* the same node with the images that pass the odometry gate counted, for a run
\* of up to MaxImages such images
CountImage ==
    /\ images_arrived < MaxImages
    /\ images_arrived' = images_arrived + 1
    /\ UNCHANGED stepping

NextCounted ==
    \/ Odom_Callback /\ UNCHANGED <<images_arrived, stepping>>
    \/ Image_NoOdom /\ UNCHANGED <<images_arrived, stepping>>
    \/ Image_Decimated /\ CountImage
    \/ Image_DecodeFail /\ CountImage
    \/ Image_SaveFail /\ CountImage
    \/ Image_Processed /\ CountImage

SpecCounted == Init /\ [][NextCounted]_vars

\* the same node with its two callbacks run by two threads, as rospy runs the
\* callbacks of two subscriptions: Image_Callback takes one step per statement
\* that reads or writes an odometry field, and Odom_Callback can run between
\* any two of them.  Two images are never handled at once.
Odom_Callback_Threaded ==
    /\ Odom_Callback
    /\ UNCHANGED <<images_arrived, stepping>>

\* lines 143-145 and 148-150, the frame dropped
Image_Dropped_Threaded ==
    /\ pc = "idle"
    /\ Image_NoOdom \/ Image_Decimated
    /\ UNCHANGED <<images_arrived, stepping>>

\* lines 143-150, the frame admitted
Image_Admitted_Threaded ==
    /\ pc = "idle"
    /\ Admitted
    /\ pc' = "line 153"
    /\ UNCHANGED <<config, current_matched_teach_frame_id, odom_topic_recieved,
                   frame_id, previous_odom, current_odom, first_frame_odom,
                   ackermann_cmd, last, stop_published, images_arrived, odom_read>>

\* lines 153-154
Image_Line154_Threaded ==
    /\ pc = "line 153"
    /\ previous_odom' = IF frame_id = 0 THEN current_odom ELSE previous_odom
    /\ pc' = "line 155"
    /\ UNCHANGED <<config, current_matched_teach_frame_id, odom_topic_recieved,
                   frame_counter, frame_id, current_odom, first_frame_odom,
                   ackermann_cmd, last, stop_published, images_arrived, odom_read>>

\* line 155
Image_Line155_Threaded ==
    /\ pc = "line 155"
    /\ FirstFrameOdom
    /\ pc' = "line 160"
    /\ UNCHANGED <<config, current_matched_teach_frame_id, odom_topic_recieved,
                   frame_counter, frame_id, previous_odom, current_odom,
                   ackermann_cmd, last, stop_published, images_arrived, odom_read>>

\* line 160: relative_odom_trans, from current_odom and previous_odom
Image_Line160_Threaded ==
    /\ pc = "line 160"
    /\ odom_read' = <<current_odom, odom_read[2]>>
    /\ pc' = "line 161"
    /\ UNCHANGED <<config, current_matched_teach_frame_id, odom_topic_recieved,
                   frame_counter, frame_id, previous_odom, current_odom,
                   first_frame_odom, ackermann_cmd, last, stop_published,
                   images_arrived>>

\* line 161: relative_pose_trans, from current_odom and first_frame_odom
Image_Line161_Threaded ==
    /\ pc = "line 161"
    /\ odom_read' = <<odom_read[1], current_odom>>
    /\ pc' = "line 168"
    /\ UNCHANGED <<config, current_matched_teach_frame_id, odom_topic_recieved,
                   frame_counter, frame_id, previous_odom, current_odom,
                   first_frame_odom, ackermann_cmd, last, stop_published,
                   images_arrived>>

\* lines 168-179: the frame given up at decoding or at saving
Image_Failed_Threaded ==
    /\ pc = "line 168"
    /\ \/ last' = NoFrame("decode_fail", FALSE)
       \/ SAVE_REPEAT_DATA /\ last' = NoFrame("save_fail", TRUE)
    /\ pc' = "idle"
    /\ UNCHANGED <<config, current_matched_teach_frame_id, odom_topic_recieved,
                   frame_counter, frame_id, previous_odom, current_odom,
                   first_frame_odom, ackermann_cmd, stop_published,
                   images_arrived, odom_read>>

\* lines 168-186
Image_Matched_Threaded ==
    /\ pc = "line 168"
    /\ MatchAndControl
    /\ pc' = "line 189"
    /\ UNCHANGED <<config, odom_topic_recieved, frame_counter, frame_id,
                   previous_odom, current_odom, first_frame_odom,
                   images_arrived, odom_read>>

\* lines 189-190
Image_Line190_Threaded ==
    /\ pc = "line 189"
    /\ frame_id' = frame_id + 1
    /\ previous_odom' = current_odom
    /\ pc' = "idle"
    /\ UNCHANGED <<config, current_matched_teach_frame_id, odom_topic_recieved,
                   frame_counter, current_odom, first_frame_odom, ackermann_cmd,
                   last, stop_published, images_arrived, odom_read>>

NextThreaded ==
    \/ Odom_Callback_Threaded
    \/ Image_Dropped_Threaded
    \/ Image_Admitted_Threaded
    \/ Image_Line154_Threaded
    \/ Image_Line155_Threaded
    \/ Image_Line160_Threaded
    \/ Image_Line161_Threaded
    \/ Image_Failed_Threaded
    \/ Image_Matched_Threaded
    \/ Image_Line190_Threaded

SpecThreaded == Init /\ [][NextThreaded]_vars

\* the same node repeating a teach path whose rows stand still or turn on the
\* spot, so that the goal lies at distance 0 with any heading
TurnDatasets ==
    UNION {{ds \in [1..n -> {ZeroRow, TurnRow}] : ds[1] = ZeroRow} : n \in 1..MaxN}

InitTurns ==
    /\ teach_dataset \in TurnDatasets
    /\ FRAME_SEARCH_WINDOW \in 0..MaxW
    /\ TARGET_FRAME_LOOKAHEAD \in 1..MaxL
    /\ PROCESS_EVERY_NTH_FRAME \in 1..MaxNth
    /\ SAVE_REPEAT_DATA \in BOOLEAN
    /\ IMAGE_COMPARISON_WIDTH = DefaultComparisonWidth
    /\ InitFields

SpecTurns == InitTurns /\ [][Next]_vars

\* the same node, started with any of the comparison widths
InitWidths ==
    /\ teach_dataset \in TeachDatasets
    /\ FRAME_SEARCH_WINDOW \in 0..MaxW
    /\ TARGET_FRAME_LOOKAHEAD \in 1..MaxL
    /\ PROCESS_EVERY_NTH_FRAME \in 1..MaxNth
    /\ SAVE_REPEAT_DATA \in BOOLEAN
    /\ IMAGE_COMPARISON_WIDTH \in ComparisonWidths
    /\ InitFields

SpecWidths == InitWidths /\ [][Next]_vars

\* ------------------------------------------------------------------- claims
Processed == last.outcome \in {"stop", "track"}

\* C1: whenever the Controller finds the look-ahead goal unavailable, the
\* command it publishes has speed = 0 and steering_angle = 0, whatever frames
\* were processed before.
C1_StopCommandIsZero ==
    last.outcome = "stop" =>
        (ackermann_cmd.speed = 0 /\ ackermann_cmd.steering_angle = 0)

\* the in-order product of the relative_odom transforms of rows lo..hi
RECURSIVE ChainOfRows(_, _, _)
ChainOfRows(ds, lo, hi) ==
    IF lo = hi THEN Trans(ds[lo + 1].x, ds[lo + 1].y, ds[lo + 1].yaw)
    ELSE append_trans(Trans(ds[lo + 1].x, ds[lo + 1].y, ds[lo + 1].yaw),
                      ChainOfRows(ds, lo + 1, hi))

\* C2 as stated: RelativeTFBetweenFrames(from_id, to_id) is unavailable (empty)
\* whenever to_id exceeds the last teach id N-1, for every valid from_id, and
\* never a partial chain; RelativeTFBetweenFrames(k, N-1) is a valid transform.
C2_UnavailableBeyondLastId ==
    Processed => \A k \in 0..(N - 1) :
        /\ \A t \in N..(N + MaxL) :
               RelativeTFBetweenFrames(teach_dataset, k, t).size = 0
        /\ RelativeTFBetweenFrames(teach_dataset, k, N - 1).size # 0

\* C2 amended: with to_id beyond N-1 the result is unavailable only for
\* from_id = N-1; for from_id < N-1 it is the chain of the rows that exist,
\* from_id+1..N-1. RelativeTFBetweenFrames(k, N-1) is a valid transform.
C2_UnavailableOnlyFromLastId ==
    \A k \in 0..(N - 1) :
        /\ \A t \in N..(N + MaxL) :
               RelativeTFBetweenFrames(teach_dataset, k, t) =
                   IF k = N - 1 THEN EmptyTrans
                   ELSE ChainOfRows(teach_dataset, k + 1, N - 1)
        /\ RelativeTFBetweenFrames(teach_dataset, k, N - 1).size # 0

\* a frame matched below the last id whose look-ahead goal lies beyond it was
\* given a tracking command
C2_Witness ==
    /\ last.outcome = "track"
    /\ last.match_teach_id < N - 1
    /\ last.match_teach_id + TARGET_FRAME_LOOKAHEAD > N - 1
    /\ last.goal_size # 0

\* C3: once a processed frame has made the Controller publish the end-of-path
\* stop command, no later frame of the run gets a tracking command.
C3_PathCompleteIsTerminal ==
    stop_published => last.outcome # "track"

\* C4: the match location the patch centre and the lateral offset are
\* computed from is the correlation-maximum location of the candidate whose
\* id is returned.
C4_LocationOfWinner ==
    Processed =>
        /\ last.max_location = last.winner_location
        /\ last.offset_y = Y_OFFSET_SCALE_FACTOR *
               (2 * (IMAGE_COMPARISON_WIDTH \div 2)
                - (2 * last.winner_location + PatchWidth))

\* C5: after the scan the cursor, and the returned id, is the id of the window
\* with the greatest maximum correlation value, the lowest such id on ties.
C5_LowestBestWins ==
    Processed =>
        /\ last.match_teach_id = last.lowest_best
        /\ current_matched_teach_frame_id = last.lowest_best

\* several candidates tied for the best score and the scan moved the cursor
C5_Witness ==
    /\ Processed
    /\ last.best_count >= 2
    /\ last.match_teach_id # last.entry_cursor
    /\ current_matched_teach_frame_id = last.lowest_best

\* C6: the ids scanned by one ImageMatching call are exactly those of
\* [max(0, c-w), min(N, c+w+1)) in ascending order, c being the cursor at
\* entry; the cursor moving during the scan does not change them.
C6_ScannedWindow ==
    Processed =>
        LET lo == Max(0, last.entry_cursor - FRAME_SEARCH_WINDOW)
            hi == Min(N, last.entry_cursor + FRAME_SEARCH_WINDOW + 1)
        IN  last.scanned = [k \in 1..(hi - lo) |-> lo + k - 1]

\* a scan clamped at the end of the path, during which the cursor moved back
C6_Witness ==
    /\ Processed
    /\ last.entry_cursor > 0
    /\ last.entry_cursor + FRAME_SEARCH_WINDOW + 1 > N
    /\ last.match_teach_id < last.entry_cursor
    /\ Len(last.scanned) >= 2

\* C7: every published command has 0 <= speed <= max_forward_velocity and
\* min_steering_angle <= steering_angle <= max_steering_angle (the limits
\* enclosing 0); a tracking command with rho_gain * rho >= max_forward_velocity
\* has speed exactly max_forward_velocity.
C7_CommandBounds ==
    last.published > 0 =>
        /\ MIN_STEERING_ANGLE <= 0 /\ 0 <= MAX_STEERING_ANGLE
        /\ 0 <= ackermann_cmd.speed
        /\ ackermann_cmd.speed <= MAX_FORWARD_VELOCITY
        /\ MIN_STEERING_ANGLE <= ackermann_cmd.steering_angle
        /\ ackermann_cmd.steering_angle <= MAX_STEERING_ANGLE
        /\ (last.outcome = "track" /\ RHO_GAIN * last.rho >= MAX_FORWARD_VELOCITY)
               => ackermann_cmd.speed = MAX_FORWARD_VELOCITY

\* a saturated tracking command that steers
C7_Witness ==
    /\ last.outcome = "track"
    /\ RHO_GAIN * last.rho > MAX_FORWARD_VELOCITY
    /\ ackermann_cmd.speed = MAX_FORWARD_VELOCITY
    /\ ackermann_cmd.steering_angle # 0

\* C8: each Image_Callback invocation that passes the odometry gate, the
\* decimation check and image decoding publishes exactly one command; each
\* invocation dropped at one of those three points publishes none.
C8_OneCommandPerAdmittedFrame ==
    /\ last.passed_gates => last.published = 1
    /\ last.outcome \in {"no_odom", "decimated", "decode_fail"} => last.published = 0

\* C9: an image arriving before any odometry message is dropped: nothing is
\* published and frame_counter, frame_id, the cursor, previous_odom and
\* first_frame_odom stay as they were; once odometry has arrived it stays
\* arrived and no later image is dropped at the odometry gate.
C9_ImageBeforeOdomDropped ==
    [][/\ last'.outcome = "no_odom" =>
             /\ ~odom_topic_recieved /\ ~odom_topic_recieved'
             /\ last'.published = 0
             /\ UNCHANGED <<frame_counter, frame_id, current_matched_teach_frame_id,
                            previous_odom, first_frame_odom, ackermann_cmd>>
       /\ odom_topic_recieved =>
             (odom_topic_recieved' /\ last'.outcome # "no_odom")]_vars

\* an image was dropped at the odometry gate
C9_Witness ==
    last.outcome = "no_odom" /\ ~odom_topic_recieved /\ frame_counter = 0

\* C10: a frame whose decoding fails publishes nothing and leaves the cursor,
\* frame_id and the command message as they were, so that the next admitted
\* frame is matched and controlled as if the failed one had not arrived
\* (ImageMatching and Controller read the cursor, the message and the
\* parameters only); the odometry it recorded for frame 0 is recorded again by
\* the next frame.
C10_DecodeFailureSkipsFrame ==
    [][last'.outcome = "decode_fail" =>
          /\ last'.published = 0
          /\ UNCHANGED <<current_matched_teach_frame_id, frame_id, ackermann_cmd,
                         config, stop_published, odom_topic_recieved, current_odom>>
          /\ frame_id # 0 => UNCHANGED <<previous_odom, first_frame_odom>>]_vars

\* a frame failed to decode after an earlier frame had been processed
C10_Witness ==
    last.outcome = "decode_fail" /\ frame_id > 0

\* C11: the lateral offset of a processed frame is positive when the centre of
\* the matched patch (match location + patch width / 2) lies left of the middle
\* of the comparison image (width / 2), negative when it lies right of it and
\* zero when it lies on it, for even and for odd comparison widths.  Positions
\* are compared in half pixels: twice the patch centre against the width.
C11_OffsetSignFollowsCentre ==
    Processed =>
        Sgn(last.offset_y)
            = Sgn(IMAGE_COMPARISON_WIDTH - (2 * last.max_location + PatchWidth))

C13_EveryNthImageAdmitted ==
    [][images_arrived' # images_arrived =>
          /\ last'.outcome \in {"decimated", "decode_fail", "save_fail",
                                 "stop", "track"}
          /\ (last'.outcome = "decimated")
                 <=> (images_arrived' % PROCESS_EVERY_NTH_FRAME # 0)
          /\ last'.outcome = "decimated" =>
                 /\ last'.published = 0
                 /\ UNCHANGED <<config, current_matched_teach_frame_id,
                                odom_topic_recieved, frame_id, previous_odom,
                                current_odom, first_frame_odom, ackermann_cmd,
                                stop_published>>]_vars

\* with n >= 2 the 2n-th image was admitted and processed
C13_Witness ==
    /\ PROCESS_EVERY_NTH_FRAME >= 2
    /\ images_arrived = 2 * PROCESS_EVERY_NTH_FRAME
    /\ Processed
    /\ frame_id = 2

\* C14: a tracking command whose speed is 0 has steering angle 0, whatever
\* alpha and beta are; in particular at the goal (rho = 0, reached with
\* alpha = beta = 0 and zero offset) the command is speed 0, steering 0.
C14_ZeroSpeedZeroSteering ==
    last.outcome = "track" =>
        /\ ackermann_cmd.speed = 0 => ackermann_cmd.steering_angle = 0
        /\ last.rho = 0 =>
               (ackermann_cmd.speed = 0 /\ ackermann_cmd.steering_angle = 0)

\* a tracking command of speed 0 was computed from a non-zero angular velocity
C14_Witness ==
    /\ last.outcome = "track"
    /\ ackermann_cmd.speed = 0
    /\ last.ang_vel # 0
    /\ last.offset_y = 0

\* C15: for every id k, inside the teach path or outside it, the transform
\* from k to k is the identity transform and never the unavailable result.
C15_SameIdIsIdentity ==
    \A k \in (0 - MaxN - MaxL)..(MaxN + MaxL) :
        /\ RelativeTFBetweenFrames(teach_dataset, k, k) = Trans(0, 0, 0)
        /\ RelativeTFBetweenFrames(teach_dataset, k, k) # EmptyTrans

\* a teach path of two or more rows whose row 1 is not the identity, so that
\* the identity from 1 to 1 differs from the transform from 0 to 1 that a
\* processed frame was steered by
C15_Witness ==
    /\ N >= 2
    /\ last.outcome = "track"
    /\ last.match_teach_id = 0
    /\ RelativeTFBetweenFrames(teach_dataset, 0, 1) # Trans(0, 0, 0)
    /\ RelativeTFBetweenFrames(teach_dataset, 1, 1) = Trans(0, 0, 0)
    /\ RelativeTFBetweenFrames(teach_dataset, N + 1, N + 1) = Trans(0, 0, 0)

\* C16: for every path length N >= 1 and look-ahead L >= 1 a processed frame
\* publishes the end-of-path stop command if and only if its matched teach id
\* is N-1; a frame matched below N-1 gets a tracking command computed from an
\* available goal, also when matched id + L exceeds N-1.
C16_StopIffMatchedLastId ==
    Processed =>
        /\ (last.outcome = "stop") <=> (last.match_teach_id = N - 1)
        /\ last.match_teach_id < N - 1 =>
               (last.outcome = "track" /\ last.goal_size # 0)

\* the second frame of a run matched the last id and was stopped; the first
\* had left the cursor one id below it, with a look-ahead that reaches beyond
\* the last id from there
C16_Witness ==
    /\ last.outcome = "stop"
    /\ last.match_teach_id = N - 1
    /\ last.entry_cursor = N - 2
    /\ TARGET_FRAME_LOOKAHEAD >= 2
    /\ frame_id = 2
    /\ N >= 2

\* C17: under any interleaving of Odom_Callback with a running Image_Callback
\* the pose a frame stores as previous_odom at its end is the pose it computed
\* its relative transforms from, and the first frame sets previous_odom and
\* first_frame_odom to the same pose, so that no odometry update is lost from
\* or counted twice in the next frame's relative transform.
C17_FrameUsesOneOdometryPose ==
    [][/\ (pc = "line 189" /\ pc' = "idle") =>
             /\ previous_odom' = odom_read[1]
             /\ previous_odom' = odom_read[2]
       /\ (pc = "line 155" /\ pc' = "line 160" /\ frame_id = 0) =>
             previous_odom' = first_frame_odom']_vars

\* C18: in every reachable state the cursor is a valid teach id,
\* 0 <= cursor <= N-1, and it starts at 0; the window scanned from a valid
\* cursor is never empty and always holds the cursor; the winner, which
\* becomes the cursor, is taken from that window.
C18_CursorValidInWindow ==
    /\ current_matched_teach_frame_id \in 0..(N - 1)
    /\ frame_id = 0 => current_matched_teach_frame_id = 0
    /\ Len(TeachFrameIds(current_matched_teach_frame_id, FRAME_SEARCH_WINDOW, N)) >= 1
    /\ current_matched_teach_frame_id \in CandidateIds
    /\ Processed =>
           /\ Len(last.scanned) >= 1
           /\ \E k \in 1..Len(last.scanned) : last.scanned[k] = last.entry_cursor
           /\ \E k \in 1..Len(last.scanned) : last.scanned[k] = last.match_teach_id
           /\ current_matched_teach_frame_id = last.match_teach_id

\* the cursor reached the last id of a path of three or more rows, where the
\* window is cut at the end of the path
C18_Witness ==
    /\ Processed
    /\ N >= 3
    /\ FRAME_SEARCH_WINDOW >= 1
    /\ current_matched_teach_frame_id = N - 1
    /\ last.entry_cursor = N - 2

\* C19: a processed frame moves the cursor by at most the search window w,
\* |cursor' - cursor| <= w; with w = 0 the cursor stays 0 over every sequence
\* of frames and, for N >= 2, the end-of-path stop is never published.
C19_CursorStepWithinWindow ==
    /\ Processed =>
           Abs(last.match_teach_id - last.entry_cursor) <= FRAME_SEARCH_WINDOW
    /\ FRAME_SEARCH_WINDOW = 0 =>
           /\ current_matched_teach_frame_id = 0
           /\ N >= 2 => ~stop_published

\* two frames were processed with w = 0 on a path of two or more rows
C19_Witness ==
    /\ FRAME_SEARCH_WINDOW = 0
    /\ N >= 2
    /\ frame_id = 2
    /\ last.outcome = "track"
    /\ last.entry_cursor = 0

====
